---- MODULE Spec2Model ----
(***************************************************************************)
(* Model of the sensor-data transformation and validation components:      *)
(*   src/src/components/data_transfomation.py  (DataTransformation)        *)
(*   src/src/components/data_validation.py     (DataValidation)            *)
(*                                                                         *)
(* A dataset (pandas DataFrame) is a record [cols, tz, rows]: the set of   *)
(* column names, the timezone of its timestamp column ("naive" or a zone)  *)
(* and the sequence of rows; a row is a function from the column names     *)
(* (and "index", the pandas index label) to cell values.                   *)
(*                                                                         *)
(* Cells.  A nullable number or string is <<>> (NaN / None) or <<v>>.      *)
(* A timestamp cell is a record: an instant counted in half-hour ticks     *)
(* since 00:00 UTC of day 0, NaT, or a string that does not parse.         *)
(* Numbers are exact: value is an integer, calibrated_value is counted in  *)
(* hundredths, a mean is a reduced fraction, a standardized value is       *)
(* num / sqrt(rad).                                                        *)
(***************************************************************************)
EXTENDS Integers, Sequences, FiniteSets, TLC

VARIABLES
    df,       \* the caller's dataset object (what the caller's variable refers to)
    arg,      \* the value df had when the last call was made
    out,      \* the dataset the last call returned (EmptyFrame when none)
    report,   \* the report the last run_data_quality_checks returned
    call,     \* the last call: [op, z_thresh]
    raised,   \* whether the last call raised
    cfgs,     \* the TransformationConfig objects; cfgs[DefaultCfg] is __init__'s default
    instances \* the DataTransformation instances: self.cfg, a reference into cfgs

vars == <<df, arg, out, report, call, raised, cfgs, instances>>

----------------------------------------------------------------------------
(* Bounds of the model *)

MaxRows == 3
MaxPipelineRows == 2
MaxOutlierRows == 4
MaxGroupRows == 3
MaxRangeRows == 2
MaxInstances == 3

----------------------------------------------------------------------------
(* Cells *)

None == <<>>
Some(v) == <<v>>

TicksPerHour == 2
HoursPerDay == 24
TicksPerDay == TicksPerHour * HoursPerDay

Instant(t) == [kind |-> "instant", t |-> t]
NaT == [kind |-> "NaT", t |-> 0]
Unparseable == [kind |-> "unparseable", t |-> 0]

BaseCols == {"sensor_id", "timestamp", "reading_type", "value", "battery_level"}

Reading(i, s, ts, rt, v, b) ==
    [index |-> i, sensor_id |-> s, timestamp |-> ts, reading_type |-> rt,
     value |-> v, battery_level |-> b]

\* pd.isna of one cell of column c
IsNull(c, v) ==
    CASE c = "timestamp" -> v.kind = "NaT"
      [] c = "date" -> FALSE          \* a date or a string, never a null
      [] OTHER -> v = None

\* row r with column c set to v (added or overwritten)
SetCol(r, c, v) == (c :> v) @@ r

Frame(cols, tz, rows) == [cols |-> cols, tz |-> tz, rows |-> rows]
EmptyFrame == Frame({}, "naive", <<>>)

\* no report: the value of report while no audit has returned one
NoReport ==
    [check_types |-> {},
     total_records |-> 0, invalid_value_type |-> None, invalid_timestamps |-> None,
     range_check |-> <<>>,
     missing_sensor_id |-> None, missing_timestamp |-> None, missing_value |-> None,
     total |-> 0, anomalies |-> None, anomaly_pct |-> [n |-> 0, d |-> 1],
     total_gaps |-> 0]

----------------------------------------------------------------------------
(* Sequence helpers *)

RECURSIVE SumSeq(_)
SumSeq(s) == IF s = <<>> THEN 0 ELSE Head(s) + SumSeq(Tail(s))

\* the non-null cells of column c, in row order
RECURSIVE NonNull(_, _)
NonNull(rows, c) ==
    IF rows = <<>> THEN <<>>
    ELSE IF IsNull(c, Head(rows)[c]) THEN NonNull(Tail(rows), c)
         ELSE <<Head(rows)[c][1]>> \o NonNull(Tail(rows), c)

RECURSIVE Filter(_, _)
Filter(rows, keep) ==
    IF rows = <<>> THEN <<>>
    ELSE IF keep[1] THEN <<Head(rows)>> \o Filter(Tail(rows), Tail(keep))
         ELSE Filter(Tail(rows), Tail(keep))

\* the row without its index label: what drop_duplicates compares
Cells(r, cols) == [c \in cols |-> r[c]]

----------------------------------------------------------------------------
(* DataTransformation.drop_duplicates_and_missing *)

CleanSubsetNoBattery == {"sensor_id", "timestamp", "reading_type", "value"}

CleanSubset == {"sensor_id", "timestamp", "reading_type", "value", "battery_level"}

\* DataFrame.drop_duplicates(): keep the first of each run of equal rows
DropDuplicates(d) ==
    LET keep == [i \in 1..Len(d.rows) |->
                    \A j \in 1..(i - 1) :
                        Cells(d.rows[j], d.cols) # Cells(d.rows[i], d.cols)]
    IN  [d EXCEPT !.rows = Filter(d.rows, keep)]

\* DataFrame.dropna(subset=...)
DropNa(d, subset) ==
    LET keep == [i \in 1..Len(d.rows) |->
                    \A c \in subset : ~IsNull(c, d.rows[i][c])]
    IN  [d EXCEPT !.rows = Filter(d.rows, keep)]

drop_duplicates_and_missing(d) == DropNa(DropDuplicates(d), CleanSubset)

----------------------------------------------------------------------------
(* DataTransformation.remove_outliers_zscore *)

\* Series.count, Series.sum over the non-null cells
Count(rows, c) == Len(NonNull(rows, c))
Sum(rows, c) == SumSeq(NonNull(rows, c))

\* n^2 times the sum of squared deviations from the mean: sum (n*x - S)^2
SqDev(rows, c) ==
    LET xs == NonNull(rows, c)
        n == Len(xs)
        S == SumSeq(xs)
    IN  SumSeq([i \in 1..n |-> (n * xs[i] - S) * (n * xs[i] - S)])

\* Series.std() is NaN: fewer than two non-null cells (ddof = 1)
StdIsNa(rows, c) == Count(rows, c) < 2
StdIsZero(rows, c) == ~StdIsNa(rows, c) /\ SqDev(rows, c) = 0

\* np.abs(z) <= z_thresh for the cell v, z = (x - mean) / std; false for NaN.
\* z^2 = (n*x - S)^2 * (n - 1) / SqDev
ZKeepPopulation(rows, c, v, t) ==
    /\ v # None
    /\ LET n == Count(rows, c)
           S == Sum(rows, c)
       IN  (n * v[1] - S) * (n * v[1] - S) * n <= t * t * SqDev(rows, c)

ZKeep(rows, c, v, t) ==
    /\ v # None
    /\ LET n == Count(rows, c)
           S == Sum(rows, c)
       IN  (n * v[1] - S) * (n * v[1] - S) * (n - 1) <= t * t * SqDev(rows, c)

remove_outliers_zscore(d, col, z_thresh) ==
    IF StdIsZero(d.rows, col) \/ StdIsNa(d.rows, col) THEN d
    ELSE LET keep == [i \in 1..Len(d.rows) |->
                         ZKeep(d.rows, col, d.rows[i][col], z_thresh)]
         IN  [d EXCEPT !.rows = Filter(d.rows, keep)]

----------------------------------------------------------------------------
(* DataTransformation.apply_calibration *)

\* cfg.calibration_params as __init__ sets it, in hundredths
calibration_params ==
    [temperature |-> [multiplier |-> 102, offset |-> -30],
     humidity |-> [multiplier |-> 99, offset |-> 50],
     soil_moisture |-> [multiplier |-> 100, offset |-> 0],
     light |-> [multiplier |-> 100, offset |-> 0]]

IdentityParams == [multiplier |-> 100, offset |-> 0]

\* dict.get(row["reading_type"], default); a null reading_type is no key
ParamsFor(rt) ==
    IF rt # None /\ rt[1] \in DOMAIN calibration_params
    THEN calibration_params[rt[1]]
    ELSE IdentityParams

\* _calibrate(row): value * multiplier + offset, in hundredths; NaN stays NaN
CalibrateNoOffset(row) ==
    IF row["value"] = None THEN None
    ELSE Some(row["value"][1] * ParamsFor(row["reading_type"]).multiplier)

Calibrate(row) ==
    IF row["value"] = None THEN None
    ELSE LET p == ParamsFor(row["reading_type"])
         IN  Some(row["value"][1] * p.multiplier + p.offset)

\* df[c] = vals: the column c set to the cells vals, row by row
WithColumn(d, c, vals) ==
    [d EXCEPT !.cols = @ \cup {c},
              !.rows = [i \in 1..Len(d.rows) |-> SetCol(d.rows[i], c, vals[i])]]

apply_calibration(d) ==
    WithColumn(d, "calibrated_value", [i \in 1..Len(d.rows) |-> Calibrate(d.rows[i])])

----------------------------------------------------------------------------
(* TransformationConfig and DataTransformation.__init__ *)

\* a TransformationConfig object; calibration_params is None or Some(table)
TransformationConfig(params) == [calibration_params |-> params]

\* the object the default of __init__'s cfg parameter refers to: the default
\* expression TransformationConfig() is evaluated once, when the class body
\* runs, and every call without a cfg gets this one object
DefaultCfg == 1

\* self.cfg = cfg, and the default table written to cfg when it has none
InitCfg(cs, ref) ==
    IF cs[ref].calibration_params = None
    THEN [cs EXCEPT ![ref].calibration_params = Some(calibration_params)]
    ELSE cs

\* self.cfg.calibration_params of instance i
TableOf(cs, insts, i) == cs[insts[i]].calibration_params[1]

\* self.cfg.calibration_params.get(row["reading_type"], identity)
ParamsIn(table, rt) ==
    IF rt # None /\ rt[1] \in DOMAIN table THEN table[rt[1]] ELSE IdentityParams

\* _calibrate(row) of an instance whose cfg holds table
CalibrateWith(table, row) ==
    IF row["value"] = None THEN None
    ELSE LET p == ParamsIn(table, row["reading_type"])
         IN  Some(row["value"][1] * p.multiplier + p.offset)

apply_calibration_with(table, d) ==
    WithColumn(d, "calibrated_value",
               [i \in 1..Len(d.rows) |-> CalibrateWith(table, d.rows[i])])

----------------------------------------------------------------------------
(* DataTransformation.add_derived *)

RECURSIVE Gcd(_, _)
Gcd(a, b) == IF b = 0 THEN a ELSE Gcd(b, a % b)
Abs(x) == IF x < 0 THEN -x ELSE x

\* the fraction n/d (d > 0) in lowest terms
Frac(n, d) ==
    LET g == Gcd(Abs(n), d)
    IN  [n |-> n \div g, d |-> d \div g]

\* Series.mean(): NaN cells are skipped; NaN when none is left
Mean(xs) == IF xs = <<>> THEN None ELSE Some(Frac(SumSeq(xs), Len(xs)))

\* the order of sort_values on object columns: strings by code point
SensorOrder == <<"S1", "S2">>
ReadingTypeOrder == <<"humidity", "light", "pressure", "soil_moisture", "temperature">>
Rank(order, s) == CHOOSE k \in 1..Len(order) : order[k] = s

\* UTC offset of the zone of a timestamp column, in ticks (Asia/Kolkata: +05:30)
KolkataOffset == 11
UtcOffset(tz) == IF tz = "Asia/Kolkata" THEN KolkataOffset ELSE 0

\* pd.to_datetime(errors="coerce") on one cell
ToDatetime(ts) == IF ts.kind = "instant" THEN ts ELSE NaT

\* .dt.date: the calendar day of the wall-clock time
DateOf(d, ts) == [kind |-> "date", day |-> (ts.t + UtcOffset(d.tz)) \div TicksPerDay]

HasKey(r, keys) == \A c \in keys : ~IsNull(c, r[c])
SameKey(r, q, keys) == \A c \in keys : r[c] = q[c]

\* groupby(keys)[c].transform("mean"): rows with a null key are in no group
GroupMean(rows, keys, c, r) ==
    IF ~HasKey(r, keys) THEN None
    ELSE LET member == [i \in 1..Len(rows) |-> SameKey(rows[i], r, keys)]
         IN  Mean(NonNull(Filter(rows, member), c))

\* one sort column: -1, 0, 1; nulls last
Cmp(a, b) == IF a < b THEN -1 ELSE IF a > b THEN 1 ELSE 0
CmpNullable(order, a, b) ==
    IF a = None \/ b = None
    THEN (IF a = b THEN 0 ELSE IF a = None THEN 1 ELSE -1)
    ELSE Cmp(Rank(order, a[1]), Rank(order, b[1]))

\* r sorts before q by ["sensor_id", "reading_type", "timestamp"]
KeyCmp(r, q) ==
    LET a == CmpNullable(SensorOrder, r["sensor_id"], q["sensor_id"])
        b == CmpNullable(ReadingTypeOrder, r["reading_type"], q["reading_type"])
    IN  IF a # 0 THEN a
        ELSE IF b # 0 THEN b
        ELSE Cmp(r["timestamp"].t, q["timestamp"].t)

\* rows in key order; rows with equal keys keep their order when stable and
\* come out reversed otherwise
SortedBy(rows, stable) ==
    LET place(i) == Cardinality({j \in 1..Len(rows) :
                        \/ KeyCmp(rows[j], rows[i]) < 0
                        \/ KeyCmp(rows[j], rows[i]) = 0 /\ (IF stable THEN j < i ELSE j > i)}) + 1
    IN  [k \in 1..Len(rows) |-> rows[CHOOSE i \in 1..Len(rows) : place(i) = k]]

SortValuesUnstable(rows) == SortedBy(rows, FALSE)

\* sort_values on several columns is a lexsort: stable
SortValues(rows) == SortedBy(rows, TRUE)

RollingWindow == 7

\* rolling(window=7, min_periods=1).mean() within the group of rows[k]
RollingMean(rows, keys, c, k) ==
    IF ~HasKey(rows[k], keys) THEN None
    ELSE LET member == [i \in 1..Len(rows) |->
                           i <= k /\ SameKey(rows[i], rows[k], keys)]
             upto == Filter(rows, member)
             n == Len(upto)
             first == IF n > RollingWindow THEN n - RollingWindow + 1 ELSE 1
         IN  Mean(NonNull(SubSeq(upto, first, n), c))

\* the expected range of a reading type, in hundredths; unbounded when unknown
ranges ==
    [temperature |-> [lo |-> -4000, hi |-> 8500],
     humidity |-> [lo |-> 0, hi |-> 10000],
     soil_moisture |-> [lo |-> 0, hi |-> 10000],
     light |-> [lo |-> 0, hi |-> 20000000]]

\* lo <= x <= hi in floating point: false when x is NaN, also for (-inf, inf)
InRange(rt, x) ==
    /\ x # None
    /\ (rt # None /\ rt[1] \in DOMAIN ranges) =>
           (ranges[rt[1]].lo <= x[1] /\ x[1] <= ranges[rt[1]].hi)

\* _is_anom(row)
is_anom(row) == ~InRange(row["reading_type"], row["calibrated_value"])

add_derived(d) ==
    LET parsed == [d EXCEPT !.rows =
                      [i \in 1..Len(d.rows) |->
                          [d.rows[i] EXCEPT !["timestamp"] = ToDatetime(@)]]]
        kept == DropNa(parsed, {"timestamp"})
        dated == WithColumn(kept, "date",
                    [i \in 1..Len(kept.rows) |-> DateOf(kept, kept.rows[i]["timestamp"])])
        daily == WithColumn(dated, "daily_avg",
                    [i \in 1..Len(dated.rows) |->
                        GroupMean(dated.rows, {"sensor_id", "reading_type", "date"},
                                  "calibrated_value", dated.rows[i])])
        sorted == SortValues(daily.rows)
        rolled == [daily EXCEPT
                      !.cols = @ \cup {"rolling_7"},
                      !.rows = [k \in 1..Len(sorted) |->
                                  SetCol(sorted[k], "rolling_7",
                                         RollingMean(sorted, {"sensor_id", "reading_type"},
                                                     "calibrated_value", k))]]
    IN  WithColumn(rolled, "anomalous_reading",
                   [i \in 1..Len(rolled.rows) |-> is_anom(rolled.rows[i])])

----------------------------------------------------------------------------
(* DataTransformation.tz_convert_and_iso *)

\* strftime("%Y-%m-%dT%H:%M:%S%z"): the wall-clock time and the UTC offset
IsoString(ts, tz) ==
    IF ts.kind = "NaT" THEN None
    ELSE Some([local |-> ts.t + UtcOffset(tz), offset |-> UtcOffset(tz)])

\* a naive column is localized to cfg.input_timezone (UTC) and converted; a
\* zone-aware one makes tz_localize raise TypeError and is only converted.
\* Either way the instants stay and the zone becomes Asia/Kolkata.
tz_convert_and_iso(d) ==
    LET ts == [i \in 1..Len(d.rows) |-> ToDatetime(d.rows[i]["timestamp"])]
        converted == [WithColumn(d, "timestamp", ts) EXCEPT !.tz = "Asia/Kolkata"]
    IN  WithColumn(converted, "timestamp_iso",
                   [i \in 1..Len(d.rows) |-> IsoString(ts[i], "Asia/Kolkata")])

----------------------------------------------------------------------------
(* DataTransformation.scale_numeric *)

numeric_cols == {"calibrated_value", "battery_level", "daily_avg", "rolling_7"}

\* a float cell as an exact fraction: daily_avg and rolling_7 hold fractions,
\* the other columns integers
AsFrac(c, v) ==
    IF v = None THEN None
    ELSE IF c \in {"daily_avg", "rolling_7"} THEN v
    ELSE Some(Frac(v[1], 1))

FracLess(a, b) == a.n * b.d < b.n * a.d
FracAdd(a, b) == Frac(a.n * b.d + b.n * a.d, a.d * b.d)
FracHalf(a) == Frac(a.n, 2 * a.d)

\* the k-th smallest of the fractions xs (k = 1 .. Len(xs))
Kth(xs, k) ==
    xs[CHOOSE i \in 1..Len(xs) :
          Cardinality({j \in 1..Len(xs) :
              FracLess(xs[j], xs[i]) \/ (xs[j] = xs[i] /\ j < i)}) = k - 1]

\* DataFrame.median() of one column: NaN when the column has no value
Median(xs) ==
    LET n == Len(xs)
    IN  IF n = 0 THEN None
        ELSE IF n % 2 = 1 THEN Some(Kth(xs, (n + 1) \div 2))
        ELSE Some(FracHalf(FracAdd(Kth(xs, n \div 2), Kth(xs, n \div 2 + 1))))

RECURSIVE Lcm(_)
Lcm(ds) ==
    IF ds = <<>> THEN 1
    ELSE LET l == Lcm(Tail(ds)) IN (Head(ds) * l) \div Gcd(Head(ds), l)

RECURSIVE GcdSeq(_)
GcdSeq(xs) == IF xs = <<>> THEN 0 ELSE Gcd(Abs(Head(xs)), GcdSeq(Tail(xs)))

\* StandardScaler on one column xs (fractions or NaN): z = (x - mean) / std
\* with the population std.  With dev[k] = n * (x[k] - mean) divided by a
\* common factor, z = num / sqrt(sumsq / n), num = dev[i], sumsq = sum dev^2.
\* A zero std scales by 1 (z = 0); a NaN cell (an all-NaN column) stays NaN.
Standardize(xs, i) ==
    IF xs[i] = None THEN None
    ELSE LET present == [k \in 1..Len(xs) |-> xs[k] # None]
             fs == Filter(xs, present)
             n == Len(fs)
             l == Lcm([k \in 1..n |-> fs[k][1].d])
             a == [k \in 1..n |-> fs[k][1].n * (l \div fs[k][1].d)]
             A == SumSeq(a)
             g == GcdSeq([k \in 1..n |-> n * a[k] - A])
             x == xs[i][1].n * (l \div xs[i][1].d)
         IN  IF g = 0 THEN Some([num |-> 0, sumsq |-> 1, n |-> 1])
             ELSE Some([num |-> (n * x - A) \div g,
                        sumsq |-> SumSeq([k \in 1..n |->
                                    ((n * a[k] - A) \div g) * ((n * a[k] - A) \div g)]),
                        n |-> n])

\* df[numeric_cols].fillna(df[numeric_cols].median()), cells as fractions
FillNa(d) ==
    LET col(c) == [i \in 1..Len(d.rows) |-> AsFrac(c, d.rows[i][c])]
        med(c) == Median(LET present == [i \in 1..Len(d.rows) |-> col(c)[i] # None]
                             fs == Filter(col(c), present)
                         IN  [k \in 1..Len(fs) |-> fs[k][1]])
    IN  [d EXCEPT !.rows =
            [i \in 1..Len(d.rows) |->
                [c \in DOMAIN d.rows[i] |->
                    IF c \in numeric_cols
                    THEN (IF col(c)[i] = None THEN med(c) ELSE col(c)[i])
                    ELSE d.rows[i][c]]]]

\* StandardScaler.fit_transform refuses an array with 0 samples (ValueError)
ScalerRaises(d) == Len(d.rows) = 0

scale_numeric(d) ==
    LET filled == FillNa(d)
        scaled(c) == [i \in 1..Len(filled.rows) |->
                        Standardize([k \in 1..Len(filled.rows) |-> filled.rows[k][c]], i)]
    IN  [filled EXCEPT
            !.cols = @ \cup {"calibrated_value_scaled", "battery_level_scaled",
                             "daily_avg_scaled", "rolling_7_scaled"},
            !.rows = [i \in 1..Len(filled.rows) |->
                 ("calibrated_value_scaled" :> scaled("calibrated_value")[i])
              @@ ("battery_level_scaled" :> scaled("battery_level")[i])
              @@ ("daily_avg_scaled" :> scaled("daily_avg")[i])
              @@ ("rolling_7_scaled" :> scaled("rolling_7")[i])
              @@ filled.rows[i]]]

----------------------------------------------------------------------------
(* DataTransformation.transform *)

\* the dataset handed to scale_numeric
BeforeScaling(d) ==
    tz_convert_and_iso(
        add_derived(
            apply_calibration(
                remove_outliers_zscore(drop_duplicates_and_missing(d), "value", 3))))

----------------------------------------------------------------------------
(* DataValidation.run_data_quality_checks *)

\* SUM(CASE WHEN p THEN 1 ELSE 0 END): NULL over no rows
SqlSum(flags) ==
    IF flags = <<>> THEN None
    ELSE Some(SumSeq([i \in 1..Len(flags) |-> IF flags[i] THEN 1 ELSE 0]))

\* a SQL comparison with a nullable number: not true for NULL
Lt(v, k) == v # None /\ v[1] < k
Gt(v, k) == v # None /\ v[1] > k

\* the CASE of the range check
OutOfRange(r) ==
    \/ r["reading_type"] = Some("temperature") /\ (Lt(r["value"], -40) \/ Gt(r["value"], 85))
    \/ r["reading_type"] = Some("humidity") /\ (Lt(r["value"], 0) \/ Gt(r["value"], 100))

\* GROUP BY reading_type: one out_of_range count per distinct type, NULL included
RangeCheck(rows) ==
    [rt \in {rows[i]["reading_type"] : i \in 1..Len(rows)} |->
        Cardinality({i \in 1..Len(rows) :
            rows[i]["reading_type"] = rt /\ OutOfRange(rows[i])})]

\* value IS NULL OR value < -1000 OR value > 1000
IsAnomalyNoNull(r) == Lt(r["value"], -1000) \/ Gt(r["value"], 1000)

IsAnomaly(r) == r["value"] = None \/ Lt(r["value"], -1000) \/ Gt(r["value"], 1000)

\* (anomalies / total) * 100 if total > 0 else 0
AnomalyPct(anomalies, total) ==
    IF total > 0 THEN Frac(anomalies[1] * 100, total) ELSE Frac(0, 1)

\* the session time zone decides the wall clock of a zone-aware column
SessionZones == {"UTC", "Asia/Kolkata"}
WallClock(d, ts, session) ==
    ts.t + (IF d.tz = "naive" THEN 0 ELSE UtcOffset(session))

Min(S) == CHOOSE x \in S : \A y \in S : x <= y
Max(S) == CHOOSE x \in S : \A y \in S : x >= y

\* MIN(timestamp)::DATE, as the tick of its midnight
DateTrunc(t) == (t \div TicksPerDay) * TicksPerDay
\* DATE_TRUNC('hour', timestamp)
HourTrunc(t) == (t \div TicksPerHour) * TicksPerHour

\* generate_series(start_date, end_date, INTERVAL 1 hour): empty when the
\* dataset has no timestamp
Expected(d, session) ==
    LET ts == {WallClock(d, d.rows[i]["timestamp"], session) :
                  i \in {j \in 1..Len(d.rows) : d.rows[j]["timestamp"].kind = "instant"}}
    IN  IF ts = {} THEN {}
        ELSE {DateTrunc(Min(ts)) + k * TicksPerHour :
                 k \in 0..((DateTrunc(Max(ts)) - DateTrunc(Min(ts))) \div TicksPerHour)}

\* the anti-join: per distinct sensor_id (NULL included, which equals nothing)
\* the expected hours with no reading of that sensor
MissingHours(d, session, s) ==
    Cardinality({e \in Expected(d, session) :
        ~\E i \in 1..Len(d.rows) :
            /\ s # None
            /\ d.rows[i]["sensor_id"] = s
            /\ d.rows[i]["timestamp"].kind = "instant"
            /\ HourTrunc(WallClock(d, d.rows[i]["timestamp"], session)) = e})

RECURSIVE SumOver(_, _, _, _)
SumOver(S, d, session, acc) ==
    IF S = {} THEN acc
    ELSE LET s == CHOOSE x \in S : TRUE
         IN  SumOver(S \ {s}, d, session, acc + MissingHours(d, session, s))

TotalGaps(d, session) ==
    SumOver({d.rows[i]["sensor_id"] : i \in 1..Len(d.rows)}, d, session, 0)

\* the casts of the coverage query (MIN(timestamp)::DATE, DATE_TRUNC('hour',
\* timestamp)) fail on a timestamp column of strings that are no timestamps
AuditRaises(d) == \E i \in 1..Len(d.rows) : d.rows[i]["timestamp"].kind = "unparseable"

QualityReport(d, session) ==
    LET rows == d.rows
        flags(p(_)) == [i \in 1..Len(rows) |-> p(rows[i])]
        anomalies == SqlSum(flags(IsAnomaly))
    IN  [check_types |-> {"type_check", "missing_check", "anomaly_pct", "coverage_gaps"}
                          \cup (IF rows = <<>> THEN {} ELSE {"range_check"}),
         total_records |-> Len(rows),
         invalid_value_type |-> SqlSum(flags(LAMBDA r : FALSE)),
         invalid_timestamps |-> SqlSum(flags(LAMBDA r : r["timestamp"].kind # "instant")),
         range_check |-> RangeCheck(rows),
         missing_sensor_id |-> SqlSum(flags(LAMBDA r : r["sensor_id"] = None)),
         missing_timestamp |-> SqlSum(flags(LAMBDA r : r["timestamp"].kind = "NaT")),
         missing_value |-> SqlSum(flags(LAMBDA r : r["value"] = None)),
         total |-> Len(rows),
         anomalies |-> anomalies,
         anomaly_pct |-> AnomalyPct(anomalies, Len(rows)),
         total_gaps |-> TotalGaps(d, session)]

----------------------------------------------------------------------------
(* DataValidation.save_processed_data *)

\* pd.to_datetime(df["timestamp"], errors="coerce").dt.date.astype(str)
DateString(d, ts) ==
    IF ts.kind = "instant"
    THEN [kind |-> "str", day |-> (ts.t + UtcOffset(d.tz)) \div TicksPerDay]
    ELSE [kind |-> "str:NaT", day |-> 0]

\* df["date"] = ...: the assignment is made on the caller's object
WithDateString(d) ==
    WithColumn(d, "date", [i \in 1..Len(d.rows) |-> DateString(d, d.rows[i]["timestamp"])])

----------------------------------------------------------------------------
(* The calls.  Each models the whole method; df' says what the method did  *)
(* to the object the caller passed in.                                     *)

Call(op, t) == [op |-> op, z_thresh |-> t]
NoCall == Call("none", 0)

\* z_thresh: the default 3.0, and 1.0, which a dataset of a few rows can exceed
Thresholds == {1, 3}

DropDuplicatesAndMissing ==
    /\ CleanSubset \subseteq df.cols
    /\ arg' = df
    /\ df' = df                                  \* works on df.copy()
    /\ out' = drop_duplicates_and_missing(df)
    /\ call' = Call("drop_duplicates_and_missing", 0)
    /\ raised' = FALSE
    /\ report' = NoReport
    /\ UNCHANGED <<cfgs, instances>>

RemoveOutliersZscore ==
    \E t \in Thresholds :
        /\ "value" \in df.cols
        /\ arg' = df
        /\ df' = df                              \* works on df.copy()
        /\ out' = remove_outliers_zscore(df, "value", t)
        /\ call' = Call("remove_outliers_zscore", t)
        /\ raised' = FALSE
        /\ report' = NoReport
        /\ UNCHANGED <<cfgs, instances>>

ApplyCalibration ==
    /\ {"reading_type", "value"} \subseteq df.cols
    /\ arg' = df
    /\ df' = df                                  \* works on df.copy()
    /\ out' = apply_calibration(df)
    /\ call' = Call("apply_calibration", 0)
    /\ raised' = FALSE
    /\ report' = NoReport
    /\ UNCHANGED <<cfgs, instances>>

AddDerived ==
    /\ {"sensor_id", "timestamp", "reading_type", "calibrated_value"} \subseteq df.cols
    /\ arg' = df
    /\ df' = df                                  \* works on df.copy()
    /\ out' = add_derived(df)
    /\ call' = Call("add_derived", 0)
    /\ raised' = FALSE
    /\ report' = NoReport
    /\ UNCHANGED <<cfgs, instances>>

TzConvertAndIso ==
    /\ "timestamp" \in df.cols
    /\ arg' = df
    /\ df' = df                                  \* works on df.copy()
    /\ out' = tz_convert_and_iso(df)
    /\ call' = Call("tz_convert_and_iso", 0)
    /\ raised' = FALSE
    /\ report' = NoReport
    /\ UNCHANGED <<cfgs, instances>>

ScaleNumeric ==
    /\ numeric_cols \subseteq df.cols
    /\ arg' = df
    /\ df' = df                                  \* works on df.copy()
    /\ raised' = ScalerRaises(df)
    /\ out' = IF ScalerRaises(df) THEN EmptyFrame ELSE scale_numeric(df)
    /\ call' = Call("scale_numeric", 0)
    /\ report' = NoReport
    /\ UNCHANGED <<cfgs, instances>>

\* the six stages in order; an exception of a stage is re-raised wrapped
Transform ==
    /\ BaseCols \subseteq df.cols
    /\ arg' = df
    /\ df' = df                                  \* every stage copies its input
    /\ raised' = ScalerRaises(BeforeScaling(df))
    /\ out' = IF ScalerRaises(BeforeScaling(df)) THEN EmptyFrame
              ELSE scale_numeric(BeforeScaling(df))
    /\ call' = Call("transform", 0)
    /\ report' = NoReport
    /\ UNCHANGED <<cfgs, instances>>

RunDataQualityChecks ==
    \E session \in SessionZones :
        /\ {"sensor_id", "timestamp", "reading_type", "value"} \subseteq df.cols
        /\ arg' = df
        /\ df' = df                              \* registered with DuckDB, only read
        /\ raised' = AuditRaises(df)
        /\ report' = IF AuditRaises(df) THEN NoReport ELSE QualityReport(df, session)
        /\ out' = EmptyFrame
        /\ call' = Call("run_data_quality_checks", 0)
        /\ UNCHANGED <<cfgs, instances>>

SaveProcessedData ==
    /\ {"sensor_id", "timestamp"} \subseteq df.cols
    /\ arg' = df
    /\ df' = WithDateString(df)                  \* df["date"] = ... on the argument
    /\ out' = EmptyFrame
    /\ raised' = FALSE
    /\ call' = Call("save_processed_data", 0)
    /\ report' = NoReport
    /\ UNCHANGED <<cfgs, instances>>

\* the caller binds the returned dataset to its variable: df = f(df)
Rebind ==
    /\ call.op \in {"drop_duplicates_and_missing", "remove_outliers_zscore",
                    "apply_calibration", "add_derived", "tz_convert_and_iso"}
    /\ ~raised
    /\ out # df
    /\ df' = out
    /\ arg' = EmptyFrame
    /\ out' = EmptyFrame
    /\ call' = NoCall
    /\ raised' = FALSE
    /\ report' = NoReport
    /\ UNCHANGED <<cfgs, instances>>

----------------------------------------------------------------------------
(* Input datasets *)

SeqsUpTo(S, n) == UNION {[1..k -> S] : k \in 0..n}

\* a dataset as read from a file: RangeIndex, naive timestamps
Indexed(rows) == [i \in 1..Len(rows) |-> SetCol(rows[i], "index", i - 1)]
RawFrame(rows) == Frame(BaseCols, "naive", Indexed(rows))

InitWith(datasets) ==
    /\ df \in datasets
    /\ arg = EmptyFrame
    /\ out = EmptyFrame
    /\ report = NoReport
    /\ call = NoCall
    /\ raised = FALSE
    /\ cfgs = <<TransformationConfig(Some(calibration_params))>>
    /\ instances = <<DefaultCfg>>     \* the pipeline's one DataTransformation()

----------------------------------------------------------------------------
(* The main specification: every call, on datasets of readings that differ *)
(* from one base reading in one column                                     *)

BaseReading == Reading(0, Some("S1"), Instant(2), Some("temperature"), Some(20), Some(50))

Readings ==
    {BaseReading}
    \cup {[BaseReading EXCEPT !["sensor_id"] = x] : x \in {None, Some("S2")}}
    \cup {[BaseReading EXCEPT !["timestamp"] = x] :
             x \in {NaT, Unparseable, Instant(3), Instant(TicksPerDay + 2)}}
    \cup {[BaseReading EXCEPT !["reading_type"] = x] : x \in {None, Some("pressure")}}
    \cup {[BaseReading EXCEPT !["value"] = x] : x \in {None, Some(90), Some(2000)}}
    \cup {[BaseReading EXCEPT !["battery_level"] = x] : x \in {None}}

Datasets == {RawFrame(rows) : rows \in SeqsUpTo(Readings, MaxRows)}
PipelineDatasets == {RawFrame(rows) : rows \in SeqsUpTo(Readings, MaxPipelineRows)}

Init == InitWith(PipelineDatasets)

Next ==
    \/ DropDuplicatesAndMissing
    \/ RemoveOutliersZscore
    \/ ApplyCalibration
    \/ AddDerived
    \/ TzConvertAndIso
    \/ ScaleNumeric
    \/ Transform
    \/ RunDataQualityChecks
    \/ SaveProcessedData
    \/ Rebind

Spec == Init /\ [][Next]_vars

\* C8: no call mutates the dataset the caller passed in: after each call the
\* caller's dataset has the columns, rows and values it had before the call.
NoInputMutation == call.op # "none" => df = arg

\* C9: degenerate statistics never raise: remove_outliers_zscore on a zero or
\* undefined standard deviation, scale_numeric on zero rows, and transform on
\* a dataset that is empty or becomes empty after cleaning.
DegenerateStatisticsNeverRaise ==
    /\ (call.op = "remove_outliers_zscore"
           /\ (StdIsNa(arg.rows, "value") \/ StdIsZero(arg.rows, "value"))) => ~raised
    /\ (call.op = "scale_numeric" /\ Len(arg.rows) = 0) => ~raised
    /\ (call.op = "transform"
           /\ Len(drop_duplicates_and_missing(arg).rows) = 0) => ~raised

\* (not a claim) the degenerate outlier filter alone never raises
DegenerateOutlierFilterReturns ==
    (call.op = "remove_outliers_zscore"
        /\ (StdIsNa(arg.rows, "value") \/ StdIsZero(arg.rows, "value")))
    => (~raised /\ out = arg)

----------------------------------------------------------------------------
(* Specification for the cleaner *)

InitClean == InitWith(Datasets)
NextClean == DropDuplicatesAndMissing \/ Rebind
SpecClean == InitClean /\ [][NextClean]_vars

\* C5: drop_duplicates_and_missing is idempotent, and its output holds no two
\* identical rows and no null in sensor_id, timestamp, reading_type, value or
\* battery_level.
CleanIdempotent ==
    call.op = "drop_duplicates_and_missing" =>
        /\ drop_duplicates_and_missing(out) = out
        /\ \A i, j \in 1..Len(out.rows) :
              i # j => Cells(out.rows[i], out.cols) # Cells(out.rows[j], out.cols)
        /\ \A i \in 1..Len(out.rows) :
              /\ out.rows[i]["sensor_id"] # None
              /\ out.rows[i]["timestamp"] # NaT
              /\ out.rows[i]["reading_type"] # None
              /\ out.rows[i]["value"] # None
              /\ out.rows[i]["battery_level"] # None

\* a duplicate and a row with a null were dropped, and a row was kept
CleanWitness ==
    /\ call.op = "drop_duplicates_and_missing"
    /\ Len(arg.rows) = 3
    /\ Len(out.rows) = 1
    /\ \E i, j \in 1..3 : i < j /\ Cells(arg.rows[i], arg.cols) = Cells(arg.rows[j], arg.cols)
                             /\ arg.rows[i]["index"] = out.rows[1]["index"]
    /\ \E i \in 1..3 : arg.rows[i]["battery_level"] = None

----------------------------------------------------------------------------
(* Specification for the audit *)

InitAudit == InitWith(Datasets)
NextAudit == RunDataQualityChecks \/ SaveProcessedData
SpecAudit == InitAudit /\ [][NextAudit]_vars

\* the input rows whose value is null or outside [-1000, 1000]
ArgAnomalies ==
    {i \in 1..Len(arg.rows) :
        \/ arg.rows[i]["value"] = None
        \/ arg.rows[i]["value"][1] < -1000
        \/ arg.rows[i]["value"][1] > 1000}

\* C6: the anomaly_pct row of a report has anomaly_pct = 100 * (rows whose
\* value is null or outside [-1000, 1000]) / (total rows) when there are rows
\* and 0 when there are none; it is 100 when every value is null.
AnomalyPctFormula ==
    (call.op = "run_data_quality_checks" /\ ~raised) =>
        LET total == Len(arg.rows)
            pct == report.anomaly_pct          \* the fraction pct.n / pct.d
        IN  /\ "anomaly_pct" \in report.check_types
            /\ report.total = total
            /\ pct.d > 0
            /\ total > 0 => pct.n * total = 100 * Cardinality(ArgAnomalies) * pct.d
            /\ total = 0 => pct.n = 0
            /\ (total > 0 /\ \A i \in 1..total : arg.rows[i]["value"] = None)
                  => pct.n = 100 * pct.d

\* a report over a null value, a value above 1000 and a value in the range
AnomalyPctWitness ==
    /\ call.op = "run_data_quality_checks"
    /\ ~raised
    /\ Len(arg.rows) = 3
    /\ \E i, j, k \in 1..3 :
          /\ arg.rows[i]["value"] = None
          /\ arg.rows[j]["value"] = Some(2000)
          /\ arg.rows[k]["value"] = Some(20)
    /\ report.anomaly_pct = [n |-> 200, d |-> 3]

\* C7: run_data_quality_checks never raises on a dataset that has the required
\* columns, whatever its rows hold, and returns a report with the type_check,
\* missing_check, anomaly_pct and coverage_gaps rows.
AuditNeverRaises ==
    call.op = "run_data_quality_checks" =>
        /\ ~raised
        /\ {"type_check", "missing_check", "anomaly_pct", "coverage_gaps"}
              \subseteq report.check_types

\* (not a claim) the audit returns its report when every timestamp is an
\* instant or null
AuditReturnsOnTimestamps ==
    (call.op = "run_data_quality_checks"
        /\ \A i \in 1..Len(arg.rows) : arg.rows[i]["timestamp"].kind # "unparseable")
    => (~raised /\ {"type_check", "missing_check", "anomaly_pct", "coverage_gaps"}
                      \subseteq report.check_types)

----------------------------------------------------------------------------
(* Specification for the coverage check: one sensor with a reading at half *)
(* past every hour of day 0 except the hours from..to-1, and possibly one  *)
(* reading of a second sensor                                              *)

HourReading(s, h) ==
    Reading(0, Some(s), Instant(h * TicksPerHour + 1), Some("temperature"), Some(20), Some(50))

RECURSIVE HoursExcept(_, _, _)
HoursExcept(h, from, to) ==
    IF h = HoursPerDay THEN <<>>
    ELSE (IF from <= h /\ h < to THEN <<>> ELSE <<HourReading("S1", h)>>)
         \o HoursExcept(h + 1, from, to)

DayDataset(from, to, other) == RawFrame(HoursExcept(0, from, to) \o other)

DayDatasets ==
    {DayDataset(from, to, other) :
        from \in 0..HoursPerDay, to \in 0..HoursPerDay,
        other \in {<<>>, <<HourReading("S2", 0)>>, <<HourReading("S2", HoursPerDay + 1)>>}}

InitCoverage == InitWith(DayDatasets)
NextCoverage == RunDataQualityChecks
SpecCoverage == InitCoverage /\ [][NextCoverage]_vars

\* the hours (as ticks) of the input's timestamps, those of sensor s only when
\* s is given as <<s>>
ArgHours(s) ==
    {HourTrunc(arg.rows[i]["timestamp"].t) :
        i \in {j \in 1..Len(arg.rows) :
                  /\ arg.rows[j]["timestamp"].kind = "instant"
                  /\ s # None => arg.rows[j]["sensor_id"] = s}}

\* the hourly buckets from the global minimum to the global maximum timestamp,
\* both truncated to the hour, inclusive
HourlyBuckets ==
    IF ArgHours(None) = {} THEN {}
    ELSE {h \in Min(ArgHours(None))..Max(ArgHours(None)) : h % TicksPerHour = 0}

ArgSensors == {arg.rows[i]["sensor_id"] : i \in 1..Len(arg.rows)} \ {None}

RECURSIVE GapsOf(_)
GapsOf(S) ==
    IF S = {} THEN 0
    ELSE LET s == CHOOSE x \in S : TRUE
         IN  Cardinality(HourlyBuckets \ ArgHours(s)) + GapsOf(S \ {s})

\* the scenario: one sensor, a reading in every hour of a day but 02:00,
\* 03:00 and 04:00
IsScenario == arg = DayDataset(2, 5, <<>>)

\* C3: total_gaps is the sum over the sensors of the hourly buckets, from the
\* global minimum to the global maximum timestamp truncated to the hour, in
\* which the sensor has no reading; the scenario yields 3.
CoverageGapsByHour ==
    (call.op = "run_data_quality_checks" /\ ~raised) =>
        /\ report.total_gaps = GapsOf(ArgSensors)
        /\ IsScenario => report.total_gaps = 3

\* (not a claim) what the coverage query counts in the scenario: the series
\* runs from midnight of the first day to midnight of the last
ScenarioCountsNoGap ==
    (call.op = "run_data_quality_checks" /\ IsScenario) => report.total_gaps = 0

----------------------------------------------------------------------------
(* Specification for the outlier filter: datasets that differ in value *)

OutlierValues == {None, Some(0), Some(1), Some(10)}

OutlierDatasets ==
    {RawFrame([i \in 1..Len(vs) |->
                 Reading(0, Some("S1"), Instant(i), Some("temperature"), vs[i], Some(50))])
       : vs \in SeqsUpTo(OutlierValues, MaxOutlierRows)}

InitOutlier == InitWith(OutlierDatasets)
NextOutlier == RemoveOutliersZscore \/ Rebind
SpecOutlier == InitOutlier /\ [][NextOutlier]_vars

\* the cells of the input's value column, as a set of rows' values
ArgValues == NonNull(arg.rows, "value")
ArgN == Len(ArgValues)
ArgS == SumSeq(ArgValues)
ArgQ == SumSeq([i \in 1..ArgN |-> ArgValues[i] * ArgValues[i]])

\* sample variance of the input is defined and > 0: n >= 2 and n*Q - S^2 > 0
ArgStdPositive == ArgN >= 2 /\ ArgN * ArgQ - ArgS * ArgS > 0

\* |(x - mean) / std| <= t with mean = S/n, std^2 = (Q - S^2/n) / (n - 1)
WithinThreshold(r, t) ==
    /\ r["value"] # None
    /\ LET x == r["value"][1]
       IN  (ArgN * x - ArgS) * (ArgN * x - ArgS) * (ArgN - 1)
               <= t * t * ArgN * (ArgN * ArgQ - ArgS * ArgS)

Rows(d) == {d.rows[i] : i \in 1..Len(d.rows)}

\* C1: remove_outliers_zscore keeps exactly the rows with |z| <= threshold when
\* the input's sample standard deviation is > 0 (z from the input's mean and
\* std), and returns the input's rows when the std is 0 or undefined.
OutlierFilterContract ==
    call.op = "remove_outliers_zscore" =>
        IF ArgStdPositive
        THEN /\ \A r \in Rows(out) : r \in Rows(arg) /\ WithinThreshold(r, call.z_thresh)
             /\ \A r \in Rows(arg) : WithinThreshold(r, call.z_thresh) => r \in Rows(out)
             /\ Len(out.rows) = Cardinality(Rows(out))
        ELSE out = arg

\* a row was removed and a row was kept under a positive std
OutlierRemovedWitness ==
    /\ call.op = "remove_outliers_zscore"
    /\ ArgStdPositive
    /\ 0 < Len(out.rows)
    /\ Len(out.rows) < Len(arg.rows)
    /\ \E r \in Rows(arg) : r["value"] # None /\ r \notin Rows(out)

\* a zero or undefined std returned the input, null cells included
OutlierDegenerateWitness ==
    /\ call.op = "remove_outliers_zscore"
    /\ ~ArgStdPositive
    /\ Len(arg.rows) >= 2
    /\ out = arg

----------------------------------------------------------------------------
(* Specification for the derived fields: rows of two sensors with equal    *)
(* and unequal timestamps, and single-sensor datasets longer than the      *)
(* rolling window                                                          *)

GroupReadings ==
    {Reading(0, Some(s), Instant(t), Some("temperature"), v, Some(50)) :
        s \in {"S1", "S2"}, t \in {0, 1}, v \in {None, Some(0), Some(10)}}

LongRows == RollingWindow + 1

LongDatasets ==
    {RawFrame([i \in 1..Len(vs) |->
                 Reading(0, Some("S1"), Instant(i \div 2), Some("soil_moisture"),
                         Some(vs[i]), Some(50))])
       : vs \in [1..LongRows -> {0, 1}]}

GroupDatasets ==
    {RawFrame(rows) : rows \in SeqsUpTo(GroupReadings, MaxGroupRows)} \cup LongDatasets

InitDerive == InitWith(GroupDatasets)
NextDerive == ApplyCalibration \/ AddDerived \/ Rebind
SpecDerive == InitDerive /\ [][NextDerive]_vars

\* the input rows of r's (sensor_id, reading_type) group whose timestamp parses
GroupOf(r) ==
    {i \in 1..Len(arg.rows) :
        /\ ToDatetime(arg.rows[i]["timestamp"]) # NaT
        /\ arg.rows[i]["sensor_id"] = r["sensor_id"]
        /\ arg.rows[i]["reading_type"] = r["reading_type"]}

\* the input position of the output row r (index labels are unique)
ArgPos(r) == CHOOSE i \in 1..Len(arg.rows) : arg.rows[i]["index"] = r["index"]

\* the rows of r's group up to r: earlier timestamp, or the same timestamp and
\* not inserted after r
UpTo(r) ==
    {i \in GroupOf(r) :
        \/ arg.rows[i]["timestamp"].t < r["timestamp"].t
        \/ arg.rows[i]["timestamp"].t = r["timestamp"].t /\ i <= ArgPos(r)}

\* the mean of calibrated_value over the input rows at positions I (NaN skipped)
MeanOver(I) ==
    LET member == [i \in 1..Len(arg.rows) |-> i \in I]
    IN  Mean(NonNull(Filter(arg.rows, member), "calibrated_value"))

\* C2: after add_derived, in every (sensor_id, reading_type) group with fewer
\* than 7 rows, rolling_7 of a row is the mean of calibrated_value over the rows
\* of the group up to it, in timestamp order with ties in insertion order.
RollingIsCumulativeMean ==
    call.op = "add_derived" =>
        \A k \in 1..Len(out.rows) :
            LET r == out.rows[k]
            IN  (HasKey(r, {"sensor_id", "reading_type"})
                    /\ Cardinality(GroupOf(r)) < RollingWindow)
                => r["rolling_7"] = MeanOver(UpTo(r))

\* a group holds two rows with the same timestamp and different values, and the
\* later inserted one has a rolling_7 that is not its own value
RollingTieWitness ==
    /\ call.op = "add_derived"
    /\ \E k \in 1..Len(out.rows) :
          LET r == out.rows[k]
          IN  /\ Cardinality(UpTo(r)) >= 2
              /\ Cardinality(GroupOf(r)) < RollingWindow
              /\ \E i \in UpTo(r) :
                    /\ i < ArgPos(r)
                    /\ arg.rows[i]["timestamp"] = r["timestamp"]
                    /\ arg.rows[i]["calibrated_value"] # None
                    /\ r["calibrated_value"] # None
                    /\ arg.rows[i]["calibrated_value"] # r["calibrated_value"]
              /\ r["rolling_7"] # Some(Frac(r["calibrated_value"][1], 1))

\* (not a claim) the same equation without the bound on the group's size
RollingIsCumulativeMeanAnySize ==
    call.op = "add_derived" =>
        \A k \in 1..Len(out.rows) :
            HasKey(out.rows[k], {"sensor_id", "reading_type"})
                => out.rows[k]["rolling_7"] = MeanOver(UpTo(out.rows[k]))

----------------------------------------------------------------------------
(* Specification for calibration and the range flag: rows of every reading *)
(* type, known and unknown, with values inside, on and outside the ranges  *)

RangeTypes ==
    {None, Some("temperature"), Some("humidity"), Some("soil_moisture"),
     Some("light"), Some("pressure")}

RangeValues == {None, Some(-39), Some(0), Some(100), Some(101)}

RangeReadings ==
    {Reading(0, Some("S1"), Instant(0), rt, v, Some(50)) :
        rt \in RangeTypes, v \in RangeValues}

RangeDatasets == {RawFrame(rows) : rows \in SeqsUpTo(RangeReadings, MaxRangeRows)}

InitRanges == InitWith(RangeDatasets)
SpecRanges == InitRanges /\ [][NextDerive]_vars

\* (multiplier, offset) of a reading type, in hundredths: the calibration
\* table's entry, or the identity for a type that is not in the table
TableEntry(rt) ==
    CASE rt = Some("temperature") -> <<102, -30>>
      [] rt = Some("humidity") -> <<99, 50>>
      [] rt = Some("soil_moisture") -> <<100, 0>>
      [] rt = Some("light") -> <<100, 0>>
      [] OTHER -> <<100, 0>>

\* the dataset d with its rows in reverse order
Reversed(d) ==
    [d EXCEPT !.rows = [i \in 1..Len(d.rows) |-> d.rows[Len(d.rows) + 1 - i]]]

\* C4: apply_calibration returns for every dataset, and row by row:
\* calibrated_value = value * multiplier + offset, (multiplier, offset) from
\* the row's reading_type and the identity for a type not in the table; every
\* other cell, the index and the order of the rows are the input's, and the
\* rows in another order get the same calibrated_value each.
CalibrationPerRow ==
    call.op = "apply_calibration" =>
        /\ ~raised
        /\ \A i \in 1..Len(arg.rows) :
              apply_calibration(Reversed(arg)).rows[Len(arg.rows) + 1 - i]["calibrated_value"]
                 = out.rows[i]["calibrated_value"]
        /\ out.cols = arg.cols \cup {"calibrated_value"}
        /\ Len(out.rows) = Len(arg.rows)
        /\ \A i \in 1..Len(arg.rows) :
              LET r == arg.rows[i]
                  e == TableEntry(r["reading_type"])
              IN  /\ \A c \in (arg.cols \cup {"index"}) \ {"calibrated_value"} :
                        out.rows[i][c] = r[c]
                  /\ out.rows[i]["calibrated_value"] =
                        IF r["value"] = None THEN None
                        ELSE Some(r["value"][1] * e[1] + e[2])

\* a row of a type in the table and a row of an unknown type were calibrated
CalibrationWitness ==
    /\ call.op = "apply_calibration"
    /\ \E i, j \in 1..Len(out.rows) :
          /\ arg.rows[i]["reading_type"] = Some("temperature")
          /\ arg.rows[i]["value"] = Some(100)
          /\ out.rows[i]["calibrated_value"] = Some(10170)
          /\ arg.rows[j]["reading_type"] = Some("pressure")
          /\ out.rows[j]["calibrated_value"] = Some(10000)

\* the closed expected range of a known reading type, in hundredths
ExpectedRange(rt) ==
    CASE rt = Some("temperature") -> <<-4000, 8500>>
      [] rt = Some("humidity") -> <<0, 10000>>
      [] rt = Some("soil_moisture") -> <<0, 10000>>
      [] rt = Some("light") -> <<0, 20000000>>

KnownType(rt) ==
    rt \in {Some("temperature"), Some("humidity"), Some("soil_moisture"), Some("light")}

\* C10: after add_derived, anomalous_reading is true exactly when
\* calibrated_value lies outside the closed range of the row's reading_type,
\* and a row of none of the four types is never flagged, whatever its
\* calibrated_value (a missing one included).
AnomalyFlagByRange ==
    call.op = "add_derived" =>
        \A k \in 1..Len(out.rows) :
            LET r == out.rows[k]
                x == r["calibrated_value"]
            IN  IF KnownType(r["reading_type"])
                THEN r["anomalous_reading"] =
                        (x = None \/ x[1] < ExpectedRange(r["reading_type"])[1]
                                  \/ x[1] > ExpectedRange(r["reading_type"])[2])
                ELSE r["anomalous_reading"] = FALSE

\* (not a claim) the flag of the rows that have a calibrated_value
AnomalyFlagOfPresentValues ==
    call.op = "add_derived" =>
        \A k \in 1..Len(out.rows) :
            LET r == out.rows[k]
                x == r["calibrated_value"]
            IN  x # None =>
                  r["anomalous_reading"] =
                    (KnownType(r["reading_type"])
                       /\ (x[1] < ExpectedRange(r["reading_type"])[1]
                              \/ x[1] > ExpectedRange(r["reading_type"])[2]))

----------------------------------------------------------------------------
(* Specification for the configuration: instances constructed with and     *)
(* without a cfg, their calibration parameters changed through one of      *)
(* them, and apply_calibration called on each                              *)

\* DataTransformation(): cfg is the default object
Construct ==
    /\ Len(instances) < MaxInstances
    /\ cfgs' = InitCfg(cfgs, DefaultCfg)
    /\ instances' = Append(instances, DefaultCfg)
    /\ call' = Call("__init__", 0)
    /\ arg' = EmptyFrame
    /\ out' = EmptyFrame
    /\ raised' = FALSE
    /\ report' = NoReport
    /\ df' = df

\* a table that is not the default one
OtherParams == [multiplier |-> 200, offset |-> 0]
OtherTable == [calibration_params EXCEPT !["humidity"] = OtherParams]
ExplicitParams == {None, Some(calibration_params), Some(OtherTable)}

\* DataTransformation(TransformationConfig(calibration_params=params)): cfg
\* is an object the caller has just made
ConstructWithCfg ==
    \E params \in ExplicitParams :
        /\ Len(instances) < MaxInstances
        /\ cfgs' = InitCfg(Append(cfgs, TransformationConfig(params)), Len(cfgs) + 1)
        /\ instances' = Append(instances, Len(cfgs) + 1)
        /\ call' = Call("__init__(cfg)", 0)
        /\ arg' = EmptyFrame
        /\ out' = EmptyFrame
        /\ raised' = FALSE
        /\ report' = NoReport
        /\ df' = df

ChangedTypes == {"temperature", "humidity"}

\* instances[i].cfg.calibration_params[rt] = OtherParams, by the holder of
\* instance i
SetCalibrationParams ==
    \E i \in 1..Len(instances), rt \in ChangedTypes :
        /\ cfgs' = [cfgs EXCEPT ![instances[i]].calibration_params =
                                  Some([@[1] EXCEPT ![rt] = OtherParams])]
        /\ call' = Call("set_calibration_params", 0)
        /\ arg' = EmptyFrame
        /\ out' = EmptyFrame
        /\ raised' = FALSE
        /\ report' = NoReport
        /\ UNCHANGED <<df, instances>>

\* instances[i].apply_calibration(df)
ApplyCalibrationOf ==
    \E i \in 1..Len(instances) :
        /\ arg' = df
        /\ df' = df                              \* works on df.copy()
        /\ out' = apply_calibration_with(TableOf(cfgs, instances, i), df)
        /\ call' = Call("apply_calibration", 0)
        /\ raised' = FALSE
        /\ report' = NoReport
        /\ UNCHANGED <<cfgs, instances>>

\* one row of a type the table has and one of a type it has not
ConfigDatasets ==
    {RawFrame(<<Reading(0, Some("S1"), Instant(0), rt, Some(20), Some(50))>>) :
        rt \in {Some("temperature"), Some("pressure")}}

\* the class body has run: the default object exists, with no table yet
InitConfig ==
    /\ df \in ConfigDatasets
    /\ arg = EmptyFrame
    /\ out = EmptyFrame
    /\ report = NoReport
    /\ call = NoCall
    /\ raised = FALSE
    /\ cfgs = <<TransformationConfig(None)>>
    /\ instances = <<>>

NextConfig == Construct \/ ConstructWithCfg \/ SetCalibrationParams \/ ApplyCalibrationOf
SpecConfig == InitConfig /\ [][NextConfig]_vars

\* instance i holds the default table and applies it to the dataset
HoldsDefault(cs, insts, i) ==
    /\ TableOf(cs, insts, i) = calibration_params
    /\ \A k \in 1..Len(df.rows) :
          CalibrateWith(TableOf(cs, insts, i), df.rows[k]) = Calibrate(df.rows[k])

\* C11: calibration parameters are private to an instance and no default is
\* shared and mutated: a change of the parameters held by one instance leaves
\* the table of every other instance as it was; an instance constructed
\* without a cfg holds and applies the default table, whatever was done to
\* the instances before it; and constructing an instance writes to no
\* configuration object that an existing instance holds.
CalibrationParamsPrivate ==
    [][/\ \A i, j \in 1..Len(instances) :
            i # j /\ TableOf(cfgs', instances', i) # TableOf(cfgs, instances, i)
                => TableOf(cfgs', instances', j) = TableOf(cfgs, instances, j)
       /\ Len(instances') > Len(instances) /\ call'.op = "__init__"
            => HoldsDefault(cfgs', instances', Len(instances'))
       /\ Len(instances') > Len(instances)
            => \A i \in 1..Len(instances) : cfgs'[instances[i]] = cfgs[instances[i]]
      ]_vars

\* (not a claim) an instance constructed with a cfg of its own keeps its
\* table when the parameters held by another instance change
ExplicitCfgPrivate ==
    [][\A i, j \in 1..Len(instances) :
          i # j /\ instances[j] # DefaultCfg
                /\ TableOf(cfgs', instances', i) # TableOf(cfgs, instances, i)
            => TableOf(cfgs', instances', j) = TableOf(cfgs, instances, j)
      ]_vars

\* (not a claim) constructing an instance writes to no configuration object
\* that an existing instance holds
ConstructWritesNoHeldCfg ==
    [][Len(instances') > Len(instances)
          => \A i \in 1..Len(instances) : cfgs'[instances[i]] = cfgs[instances[i]]
      ]_vars

\* (not a claim) every instance has a table after __init__
EveryInstanceHasTable ==
    \A i \in 1..Len(instances) : cfgs[instances[i]].calibration_params # None

\* two instances constructed without a cfg, the parameters of one changed
SharedDefaultChanged ==
    /\ \E i, j \in 1..Len(instances) :
          i # j /\ instances[i] = DefaultCfg /\ instances[j] = DefaultCfg
    /\ cfgs[DefaultCfg].calibration_params # Some(calibration_params)
    /\ call.op = "apply_calibration"

====
